---- MODULE Spec2Model ----
(***************************************************************************)
(* ReposCloner: the single-repository sync operations of                   *)
(* reposcloner/git_operations.py (clone_repo, update_repo,                 *)
(* reclone_repo), the batch                                                *)
(* orchestrator of main.py (process_repos_parallel,                        *)
(* process_repos_sequential) and the identifier -> local path mapping.     *)
(*                                                                         *)
(* reposcloner/utils.py (print_summary) and reposcloner/search.py          *)
(* (filter_repos, search_in_repos) are modelled too.                       *)
(*                                                                         *)
(* The specifications share the variables:                                 *)
(*   Spec          one sync operation at a time over the mirror store      *)
(*   BatchSpec     one batch call (parallel or sequential)                 *)
(*   BatchFairSpec BatchSpec with the pool's threads scheduled fairly      *)
(*   PathSpec      the path mapping applied to pairs of identifiers        *)
(*   SummarySpec   print_summary over a list of results                    *)
(*   SearchSpec    search_in_repos over a list of identifiers              *)
(*   HistorySpec   view_commit_history                                     *)
(*   FilterSpec    main's choice 8 (filter) followed by choice 2 (update)  *)
(***************************************************************************)
EXTENDS Integers, Sequences, FiniteSets, TLC

(***************************************************************************)
(* Bounds of the model and program constants.                              *)
(***************************************************************************)
\* hashes of a mirror's head are 1..MaxCommits (0: no readable head)
MaxCommits == 2
\* identifiers of PathSpec are at most this long
MaxIdLen == 4
\* a batch is given at most this many identifiers
MaxRepos == 2
\* the worker pool has 1..MaxPool workers (config 'max_workers')
MaxPool == 2
\* git_operations.MAX_RETRIES
MAX_RETRIES == 3
\* reclone_repo: the number of attempts to delete the directory
max_retries == 5
\* search_in_repos: the number of commits iter_commits is asked for
max_count == 100
REPOS_DIR == "./repos"

(***************************************************************************)
(* Identifiers are sequences of characters.                                *)
(***************************************************************************)
Alphabet == {"a", "_", "/"}

\* str.replace('/', '_')
Replace(s) == [i \in 1..Len(s) |-> IF s[i] = "/" THEN "_" ELSE s[i]]

\* os.path.join(REPOS_DIR, repo_name.replace('/', '_'))
RepoPath(repo_name) == <<REPOS_DIR, "/">> \o Replace(repo_name)

\* the strings of the form owner/name: one '/', neither first nor last
IsOwnerName(s) ==
    /\ Len(s) >= 3
    /\ Cardinality({i \in 1..Len(s) : s[i] = "/"}) = 1
    /\ s[1] # "/"
    /\ s[Len(s)] # "/"

SeqsUpTo(S, n) == UNION {[1..k -> S] : k \in 0..n}

IdSpace == {s \in SeqsUpTo(Alphabet, MaxIdLen) : IsOwnerName(s)}

\* the identifiers the sync operations are called with
SyncIds == {<<"a", "/", "a">>, <<"a", "/", "_">>}

\* the identifiers a batch is given
BatchIds == {<<"a", "/", "a">>, <<"a", "/", "_">>}

VARIABLES
    \* ---- the mirror store and one sync operation (Spec)
    mirror,        \* local path -> [present, head]
    mirror0,       \* the mirror store when the running call started
    opName,        \* "none" | "clone" | "update" | "reclone"
    opId,          \* the identifier the call was given
    pc,            \* position in the running call
    retry_count,   \* clone_repo's retry_count
    old_commit,    \* update_repo's old_commit (0: None)
    new_commit,    \* update_repo's new_commit (0: unbound)
    new_commits,   \* update_repo's new_commits
    attempt,       \* reclone_repo's attempt
    trace,         \* the collaborator calls of the running call, with outcomes
    result,        \* what the call returned, or that it raised
    \* ---- one batch call (BatchSpec)
    repos,         \* the identifiers given
    parallel,      \* TRUE: process_repos_parallel
    MAX_WORKERS,   \* main.MAX_WORKERS
    mainpc,        \* position of the calling thread
    nextSubmit,    \* index of the next identifier to submit / process
    queue,         \* submitted work items not yet taken by a worker
    worker,        \* worker -> [pc, item, res]
    future,        \* item -> "none" | "pending" | "running" | "done" | "raised"
    futureResult,  \* item -> the result record of a done future
    collected,     \* items as_completed has yielded
    lock,          \* holder of the lock (0: free)
    completed,     \* the shared completion counter
    progress,      \* the print_progress calls, in order
    results,       \* the list being returned
    \* ---- the path mapping (PathSpec)
    id1, id2, path1, path2,
    \* ---- the other operations, each the locals of one call
    summary,       \* print_summary (SummarySpec)
    search,        \* search_in_repos (SearchSpec)
    history,       \* view_commit_history (HistorySpec)
    menu           \* main's loop: choices 8 and 2 (FilterSpec)

syncVars == <<mirror, mirror0, opName, opId, pc, retry_count, attempt, old_commit,
              new_commit, new_commits, trace, result>>
batchVars == <<repos, parallel, MAX_WORKERS, mainpc, nextSubmit, queue, worker,
               future, futureResult, collected, lock, completed, progress,
               results>>
pathVars == <<id1, id2, path1, path2>>
auxVars == <<summary, search, history, menu>>
vars == <<syncVars, batchVars, pathVars, auxVars>>

(***************************************************************************)
(* The mirror store.                                                       *)
(***************************************************************************)
Paths == {RepoPath(i) : i \in SyncIds}

Absent == [present |-> FALSE, head |-> 0]
Present(h) == [present |-> TRUE, head |-> h]

\* os.path.exists(repo_path)
Exists(p) == mirror[p].present

NoResult == [status |-> "none"]
Raised(e) == [status |-> "RAISED", exc |-> e]

\* an exception: its class, the collaborator call that raised it, the attempt
GitCommandError(step, n) == <<"GitCommandError", step, n>>
OtherError(step, n) == <<"Exception", step, n>>

\* one collaborator call and how it ended
Call(prim, outcome) == <<prim, outcome>>

SyncIdle ==
    /\ mirror = [p \in Paths |-> Absent]
    /\ mirror0 = [p \in Paths |-> Absent]
    /\ opName = "none"
    /\ opId = <<>>
    /\ pc = "idle"
    /\ retry_count = 0
    /\ attempt = 0
    /\ old_commit = 0
    /\ new_commit = 0
    /\ new_commits = <<>>
    /\ trace = <<>>
    /\ result = NoResult

BatchIdle ==
    /\ repos = <<>>
    /\ parallel = FALSE
    /\ MAX_WORKERS = 1
    /\ mainpc = "idle"
    /\ nextSubmit = 1
    /\ queue = <<>>
    /\ worker = <<>>
    /\ future = <<>>
    /\ futureResult = <<>>
    /\ collected = {}
    /\ lock = 0
    /\ completed = 0
    /\ progress = <<>>
    /\ results = <<>>

PathIdle ==
    /\ id1 = <<>>
    /\ id2 = <<>>
    /\ path1 = <<>>
    /\ path2 = <<>>

Idle == [pc |-> "idle"]

SummaryIdle == summary = Idle
SearchIdle == search = Idle
HistoryIdle == history = Idle
MenuIdle == menu = Idle
AuxIdle == SummaryIdle /\ SearchIdle /\ HistoryIdle /\ MenuIdle

(***************************************************************************)
(* A call of a sync operation starts (main.py calls clone_repo,            *)
(* update_repo, reclone_repo with an identifier of the list).              *)
(***************************************************************************)
StartCall(op, id) ==
    /\ pc \in {"idle", "done"}
    /\ opName' = op
    /\ opId' = id
    /\ mirror0' = mirror
    /\ retry_count' = 0
    /\ attempt' = 0
    /\ old_commit' = 0
    /\ new_commit' = 0
    /\ new_commits' = <<>>
    /\ trace' = <<>>
    /\ result' = NoResult
    /\ UNCHANGED mirror

Return(r) ==
    /\ pc' = "done"
    /\ result' = r

(***************************************************************************)
(* clone_repo(repo_name, retry_count)                                      *)
(***************************************************************************)
CloneCall ==
    /\ \E id \in SyncIds : StartCall("clone", id)
    /\ pc' = "clone_check"
    /\ UNCHANGED <<batchVars, pathVars, auxVars>>

\* clone_repo without the test of line 27
CloneCheckSkipped ==
    /\ pc = "clone_check"
    /\ pc' = "clone_from"
    /\ UNCHANGED <<mirror, mirror0, opName, opId, retry_count, old_commit,
                   new_commit, new_commits, trace, result>>
    /\ UNCHANGED <<attempt, batchVars, pathVars, auxVars>>

\* lines 26-29: the mirror exists
CloneCheck ==
    /\ pc = "clone_check"
    /\ IF Exists(RepoPath(opId))
         THEN Return([repo |-> opId, status |-> "already_cloned"])
         ELSE pc' = "clone_from" /\ UNCHANGED result
    /\ UNCHANGED <<mirror, mirror0, opName, opId, retry_count, old_commit,
                   new_commit, new_commits, trace>>
    /\ UNCHANGED <<attempt, batchVars, pathVars, auxVars>>

\* lines 39-45: except GitCommandError
CloneExcept(e) ==
    IF retry_count < MAX_RETRIES
      THEN /\ trace' = trace \o <<Call(e[2], "git"), Call("sleep", "ok")>>
           /\ retry_count' = retry_count + 1
           /\ pc' = "clone_check"
           /\ UNCHANGED result
      ELSE /\ trace' = Append(trace, Call(e[2], "git"))
           /\ Return([repo |-> opId, status |-> "error", message |-> e])
           /\ UNCHANGED retry_count

\* a statement of clone_repo's try block raises something else
CloneRaise(e) ==
    /\ trace' = Append(trace, Call(e[2], "other"))
    /\ pc' = "done"
    /\ result' = Raised(e)
    /\ UNCHANGED retry_count

\* line 32: Repo.clone_from
CloneFrom ==
    /\ pc = "clone_from"
    /\ \/ \E h \in 1..MaxCommits :
            /\ mirror' = [mirror EXCEPT ![RepoPath(opId)] = Present(h)]
            /\ trace' = Append(trace, Call("clone", "ok"))
            /\ pc' = "clone_config1"
            /\ UNCHANGED <<retry_count, result>>
       \/ \E left \in BOOLEAN :
            /\ mirror' = [mirror EXCEPT ![RepoPath(opId)] =
                             IF left THEN Present(0) ELSE Absent]
            /\ CloneExcept(GitCommandError("clone", retry_count))
       \/ \E left \in BOOLEAN :
            /\ mirror' = [mirror EXCEPT ![RepoPath(opId)] =
                             IF left THEN Present(0) ELSE Absent]
            /\ CloneRaise(OtherError("clone", retry_count))
    /\ UNCHANGED <<mirror0, opName, opId, old_commit, new_commit, new_commits>>
    /\ UNCHANGED <<attempt, batchVars, pathVars, auxVars>>

\* lines 34-35: Repo(repo_path); repo.git.config('core.longpaths', 'true')
CloneConfig1 ==
    /\ pc = "clone_config1"
    /\ \/ /\ trace' = Append(trace, Call("config_longpaths", "ok"))
          /\ pc' = "clone_config2"
          /\ UNCHANGED <<retry_count, result>>
       \/ CloneExcept(GitCommandError("config_longpaths", retry_count))
       \/ CloneRaise(OtherError("config_longpaths", retry_count))
    /\ UNCHANGED <<mirror, mirror0, opName, opId, old_commit, new_commit,
                   new_commits>>
    /\ UNCHANGED <<attempt, batchVars, pathVars, auxVars>>

\* the status of reclone_repo's line 170 in place of line 38's
CloneStatusRecloned == "recloned"

\* line 38
CloneStatus == "cloned"

\* lines 36-38: repo.git.config('core.quotepath', 'false'); return
CloneConfig2 ==
    /\ pc = "clone_config2"
    /\ \/ /\ trace' = Append(trace, Call("config_quotepath", "ok"))
          /\ Return([repo |-> opId, status |-> CloneStatus])
          /\ UNCHANGED retry_count
       \/ CloneExcept(GitCommandError("config_quotepath", retry_count))
       \/ CloneRaise(OtherError("config_quotepath", retry_count))
    /\ UNCHANGED <<mirror, mirror0, opName, opId, old_commit, new_commit,
                   new_commits>>
    /\ UNCHANGED <<attempt, batchVars, pathVars, auxVars>>

clone_repo == CloneCheck \/ CloneFrom \/ CloneConfig1 \/ CloneConfig2

(***************************************************************************)
(* update_repo(repo_name)                                                  *)
(***************************************************************************)
UpdateCall ==
    /\ \E id \in SyncIds : StartCall("update", id)
    /\ pc' = "upd_check"
    /\ UNCHANGED <<batchVars, pathVars, auxVars>>

\* repo.head.commit.hexsha of the mirror at the call's path
HeadCommit == mirror[RepoPath(opId)].head

\* repo.iter_commits(f'{old}..{new}'): most recent first
CommitRange(old, new) ==
    IF new > old THEN [i \in 1..(new - old) |-> new - i + 1] ELSE <<>>

\* update_repo without the test of line 50
UpdCheckSkipped ==
    /\ pc = "upd_check"
    /\ pc' = "upd_open"
    /\ UNCHANGED <<mirror, mirror0, opName, opId, retry_count, old_commit,
                   new_commit, new_commits, trace, result>>
    /\ UNCHANGED <<attempt, batchVars, pathVars, auxVars>>

\* lines 49-51
UpdCheck ==
    /\ pc = "upd_check"
    /\ IF ~Exists(RepoPath(opId))
         THEN Return([repo |-> opId, status |-> "not_cloned"])
         ELSE pc' = "upd_open" /\ UNCHANGED result
    /\ UNCHANGED <<mirror, mirror0, opName, opId, retry_count, old_commit,
                   new_commit, new_commits, trace>>
    /\ UNCHANGED <<attempt, batchVars, pathVars, auxVars>>

\* line 75: a GitCommandError of the try block enters the handler, whose
\* lines 78-80 run only when old_commit is None
TryHandlerEntry == IF old_commit = 0 THEN "frc_old" ELSE "frc_fetch"

TryGit(step) ==
    /\ trace' = Append(trace, Call(step, "git"))
    /\ pc' = TryHandlerEntry
    /\ UNCHANGED result

\* the handler of line 103 falling into the forced sync
TryOtherForced(step) ==
    /\ trace' = Append(trace, Call(step, "other"))
    /\ pc' = TryHandlerEntry
    /\ UNCHANGED result

\* lines 103-104: except Exception
TryOther(step) ==
    /\ trace' = Append(trace, Call(step, "other"))
    /\ Return([repo |-> opId, status |-> "error",
               message |-> <<"Unexpected error", OtherError(step, 0)>>])

\* the other historical policy: a failed forced sync deletes and reclones
FrcGitReclone(step) ==
    /\ trace' = trace \o <<Call(step, "git"), Call("rmtree", "ok"),
                            Call("clone", "ok")>>
    /\ Return([repo |-> opId, status |-> "recloned"])

\* lines 101-102: except GitCommandError as e2
FrcGit(step) ==
    /\ trace' = Append(trace, Call(step, "git"))
    /\ Return([repo |-> opId, status |-> "error",
               message |-> <<"Failed to update", GitCommandError(step, 0)>>])

\* any other exception of the handler's try has no handler
FrcOther(step) ==
    /\ trace' = Append(trace, Call(step, "other"))
    /\ pc' = "done"
    /\ result' = Raised(OtherError(step, 0))

Ok(step, next) ==
    /\ trace' = Append(trace, Call(step, "ok"))
    /\ pc' = next
    /\ UNCHANGED result

\* line 54: Repo(repo_path)
UpdOpen ==
    /\ pc = "upd_open"
    /\ \/ Ok("open", "upd_old")
       \/ TryGit("open")
       \/ TryOther("open")
    /\ UNCHANGED <<mirror, mirror0, opName, opId, retry_count, old_commit,
                   new_commit, new_commits>>
    /\ UNCHANGED <<attempt, batchVars, pathVars, auxVars>>

\* line 55: old_commit = repo.head.commit.hexsha
UpdOld ==
    /\ pc = "upd_old"
    /\ \/ /\ HeadCommit >= 1
          /\ Ok("head", "upd_pull")
          /\ old_commit' = HeadCommit
       \/ TryGit("head") /\ UNCHANGED old_commit
       \/ TryOther("head") /\ UNCHANGED old_commit
    /\ UNCHANGED <<mirror, mirror0, opName, opId, retry_count, new_commit,
                   new_commits>>
    /\ UNCHANGED <<attempt, batchVars, pathVars, auxVars>>

\* lines 56-57: origin = repo.remotes.origin; origin.pull()
UpdPull ==
    /\ pc = "upd_pull"
    /\ \/ \E h \in HeadCommit..MaxCommits :
            /\ mirror' = [mirror EXCEPT ![RepoPath(opId)] = Present(h)]
            /\ Ok("pull", "upd_new")
       \/ TryGit("pull") /\ UNCHANGED mirror
       \/ TryOther("pull") /\ UNCHANGED mirror
    /\ UNCHANGED <<mirror0, opName, opId, retry_count, old_commit, new_commit,
                   new_commits>>
    /\ UNCHANGED <<attempt, batchVars, pathVars, auxVars>>

\* line 58: new_commit = repo.head.commit.hexsha
UpdNew ==
    /\ pc = "upd_new"
    /\ \/ /\ Ok("head", "upd_log")
          /\ new_commit' = HeadCommit
       \/ TryGit("head") /\ UNCHANGED new_commit
       \/ TryOther("head") /\ UNCHANGED new_commit
    /\ UNCHANGED <<mirror, mirror0, opName, opId, retry_count, old_commit,
                   new_commits>>
    /\ UNCHANGED <<attempt, batchVars, pathVars, auxVars>>

\* lines 60-61 with no handler: a failed log ends the update with error
LogRangeNoCatch(next) ==
    \/ /\ Ok("log", next)
       /\ new_commits' = CommitRange(old_commit, new_commit)
    \/ /\ trace' = Append(trace, Call("log", "other"))
       /\ Return([repo |-> opId, status |-> "error",
                  message |-> <<"Unexpected error", OtherError("log", 0)>>])
       /\ UNCHANGED new_commits

\* lines 59-64 and 85-90: the range of new commits, [] when the log fails
LogRange(next) ==
    \/ /\ Ok("log", next)
       /\ new_commits' = CommitRange(old_commit, new_commit)
    \/ /\ trace' = Append(trace, Call("log", "other"))
       /\ pc' = next
       /\ new_commits' = <<>>
       /\ UNCHANGED result

\* a record whose count is taken from the hashes, not from the list
ChangesCountFromHashes(status) ==
    [repo |-> opId, status |-> status, old_commit |-> old_commit,
     new_commit |-> new_commit, new_commits_count |-> new_commit - old_commit,
     new_commits |-> new_commits]

\* lines 65-72 and 91-98
Changes(status) ==
    [repo |-> opId, status |-> status, old_commit |-> old_commit,
     new_commit |-> new_commit, new_commits_count |-> Len(new_commits),
     new_commits |-> new_commits]

\* a no_changes record that carries the fields of lines 68-71
NoChangesWithCommits ==
    [repo |-> opId, status |-> "no_changes", old_commit |-> old_commit,
     new_commit |-> new_commit, new_commits_count |-> 0, new_commits |-> <<>>]

\* lines 74 and 100
NoChanges == [repo |-> opId, status |-> "no_changes"]

\* lines 59-64, 73-74
UpdLog ==
    /\ pc = "upd_log"
    /\ IF old_commit # new_commit
         THEN LogRange("upd_build")
         ELSE /\ Return(NoChanges)
              /\ UNCHANGED <<trace, new_commits>>
    /\ UNCHANGED <<mirror, mirror0, opName, opId, retry_count, old_commit,
                   new_commit>>
    /\ UNCHANGED <<attempt, batchVars, pathVars, auxVars>>

\* lines 65-72: the record is built from the commits' attributes (line 71
\* reads c.hexsha, c.message, c.author of each commit of new_commits, so it
\* can raise only when there is one)
UpdBuild ==
    /\ pc = "upd_build"
    /\ \/ /\ trace' = Append(trace, Call("build", "ok"))
          /\ Return(Changes("updated"))
       \/ new_commits # <<>> /\ TryGit("build")
       \/ new_commits # <<>> /\ TryOther("build")
    /\ UNCHANGED <<mirror, mirror0, opName, opId, retry_count, old_commit,
                   new_commit, new_commits>>
    /\ UNCHANGED <<attempt, batchVars, pathVars, auxVars>>

\* lines 78-80: repo = Repo(repo_path); old_commit = repo.head.commit.hexsha
FrcOld ==
    /\ pc = "frc_old"
    /\ \/ /\ HeadCommit >= 1
          /\ Ok("head", "frc_fetch")
          /\ old_commit' = HeadCommit
       \/ FrcGit("head") /\ UNCHANGED old_commit
       \/ FrcOther("head") /\ UNCHANGED old_commit
    /\ UNCHANGED <<mirror, mirror0, opName, opId, retry_count, new_commit,
                   new_commits>>
    /\ UNCHANGED <<attempt, batchVars, pathVars, auxVars>>

\* line 81: repo.git.fetch()
FrcFetch ==
    /\ pc = "frc_fetch"
    /\ \/ Ok("fetch", "frc_branch")
       \/ FrcGit("fetch")
       \/ FrcOther("fetch")
    /\ UNCHANGED <<mirror, mirror0, opName, opId, retry_count, old_commit,
                   new_commit, new_commits>>
    /\ UNCHANGED <<attempt, batchVars, pathVars, auxVars>>

\* line 82: current_branch = repo.active_branch.name
FrcBranch ==
    /\ pc = "frc_branch"
    /\ \/ Ok("active_branch", "frc_reset")
       \/ FrcGit("active_branch")
       \/ FrcOther("active_branch")
    /\ UNCHANGED <<mirror, mirror0, opName, opId, retry_count, old_commit,
                   new_commit, new_commits>>
    /\ UNCHANGED <<attempt, batchVars, pathVars, auxVars>>

\* line 83: repo.git.reset('--hard', f'origin/{current_branch}')
FrcReset ==
    /\ pc = "frc_reset"
    /\ \/ \E h \in 1..MaxCommits :
            /\ mirror' = [mirror EXCEPT ![RepoPath(opId)] = Present(h)]
            /\ Ok("reset", "frc_new")
       \/ FrcGit("reset") /\ UNCHANGED mirror
       \/ FrcOther("reset") /\ UNCHANGED mirror
    /\ UNCHANGED <<mirror0, opName, opId, retry_count, old_commit, new_commit,
                   new_commits>>
    /\ UNCHANGED <<attempt, batchVars, pathVars, auxVars>>

\* line 84: new_commit = repo.head.commit.hexsha
FrcNew ==
    /\ pc = "frc_new"
    /\ \/ /\ Ok("head", "frc_log")
          /\ new_commit' = HeadCommit
       \/ FrcGit("head") /\ UNCHANGED new_commit
       \/ FrcOther("head") /\ UNCHANGED new_commit
    /\ UNCHANGED <<mirror, mirror0, opName, opId, retry_count, old_commit,
                   new_commits>>
    /\ UNCHANGED <<attempt, batchVars, pathVars, auxVars>>

\* lines 85-90, 99-100
FrcLog ==
    /\ pc = "frc_log"
    /\ IF old_commit # new_commit
         THEN LogRange("frc_build")
         ELSE /\ Return(NoChanges)
              /\ UNCHANGED <<trace, new_commits>>
    /\ UNCHANGED <<mirror, mirror0, opName, opId, retry_count, old_commit,
                   new_commit>>
    /\ UNCHANGED <<attempt, batchVars, pathVars, auxVars>>

\* the status of line 67 in place of line 93's
ForcedStatusUpdated == "updated"

\* line 93
ForcedStatus == "updated_forced"

\* lines 91-98 (line 97 can raise only when new_commits has a commit)
FrcBuild ==
    /\ pc = "frc_build"
    /\ \/ /\ trace' = Append(trace, Call("build", "ok"))
          /\ Return(Changes(ForcedStatus))
       \/ new_commits # <<>> /\ FrcGit("build")
       \/ new_commits # <<>> /\ FrcOther("build")
    /\ UNCHANGED <<mirror, mirror0, opName, opId, retry_count, old_commit,
                   new_commit, new_commits>>
    /\ UNCHANGED <<attempt, batchVars, pathVars, auxVars>>

update_repo ==
    \/ UpdCheck \/ UpdOpen \/ UpdOld \/ UpdPull \/ UpdNew \/ UpdLog \/ UpdBuild
    \/ FrcOld \/ FrcFetch \/ FrcBranch \/ FrcReset \/ FrcNew \/ FrcLog
    \/ FrcBuild

(***************************************************************************)
(* reclone_repo(repo_name)                                                 *)
(***************************************************************************)
RecloneCall ==
    /\ \E id \in SyncIds : StartCall("reclone", id)
    /\ pc' = "recl_check"
    /\ UNCHANGED <<batchVars, pathVars, auxVars>>

\* the OSErrors of shutil.rmtree, by the system error code they carry:
\* access denied, sharing violation (the file is open in another process),
\* network path not found
OSErrors == {"WinError 5", "WinError 32", "WinError 53"}

\* the failures that are a permission or a lock condition
PermissionOrLock(kind) == kind \in {"WinError 5", "WinError 32"}

\* str(e), as a sequence of pieces of text
Str(kind) ==
    CASE kind = "WinError 5" ->
           <<"[", "WinError ", "5", "] ", "Access is denied">>
      [] kind = "WinError 32" ->
           <<"[", "WinError ", "3", "2", "] ",
             "The process cannot access the file because it is being used by another process">>
      [] kind = "WinError 53" ->
           <<"[", "WinError ", "5", "3", "] ", "The network path was not found">>
      [] kind = "git" -> <<"Cmd('git') failed due to: exit code(128)">>
      [] kind = "other" -> <<"Exception">>

\* needle in text
In(needle, text) ==
    \E i \in 0..(Len(text) - Len(needle)) :
        \A j \in 1..Len(needle) : text[i + j] = needle[j]

\* line 173
AccessDenied(repo_path, text) ==
    <<"Access denied while deleting repository directory. ",
      "You may need to manually delete the folder '">> \o repo_path \o
    <<"' and try again. Original error: ">> \o text

\* lines 172-175
Message(repo_path, text) ==
    IF In(<<"WinError ", "5">>, text) \/ In(<<"Access denied">>, text)
      THEN AccessDenied(repo_path, text)
      ELSE text

\* a handler like clone_repo's, which lets what is no VCS or OS error escape
RecloneExceptNarrow(step, kind) ==
    /\ trace' = Append(trace, Call(step, kind))
    /\ pc' = "done"
    /\ result' = IF kind = "other"
                   THEN Raised(OtherError(step, 0))
                   ELSE [repo |-> opId, status |-> "error",
                         message |-> Message(RepoPath(opId), Str(kind))]

\* lines 171-176: except Exception
RecloneExcept(step, kind) ==
    /\ trace' = Append(trace, Call(step, kind))
    /\ Return([repo |-> opId, status |-> "error",
               message |-> Message(RepoPath(opId), Str(kind))])

\* reclone_repo deleting whether or not the directory exists
RecloneCheckAlwaysDelete ==
    /\ pc = "recl_check"
    /\ pc' = "recl_rmtree"
    /\ UNCHANGED <<mirror, mirror0, opName, opId, retry_count, attempt,
                   old_commit, new_commit, new_commits, trace, result>>
    /\ UNCHANGED <<batchVars, pathVars, auxVars>>

\* line 154
RecloneCheck ==
    /\ pc = "recl_check"
    /\ pc' = IF Exists(RepoPath(opId)) THEN "recl_rmtree" ELSE "recl_clone"
    /\ UNCHANGED <<mirror, mirror0, opName, opId, retry_count, attempt,
                   old_commit, new_commit, new_commits, trace, result>>
    /\ UNCHANGED <<batchVars, pathVars, auxVars>>

\* a handler that gives up deleting after the last attempt and goes on
RmtreeExceptGoOn(kind) ==
    IF attempt < max_retries - 1
      THEN /\ trace' = trace \o <<Call("rmtree", kind), Call("sleep", "ok")>>
           /\ attempt' = attempt + 1
           /\ UNCHANGED <<pc, result>>
      ELSE /\ trace' = Append(trace, Call("rmtree", kind))
           /\ pc' = "recl_clone"
           /\ UNCHANGED <<attempt, result>>

\* lines 160-164: except OSError
RmtreeExcept(kind) ==
    IF attempt < max_retries - 1
      THEN /\ trace' = trace \o <<Call("rmtree", kind), Call("sleep", "ok")>>
           /\ attempt' = attempt + 1
           /\ UNCHANGED <<pc, result>>
      ELSE /\ RecloneExcept("rmtree", kind)
           /\ UNCHANGED attempt

\* lines 156-159: one shutil.rmtree(repo_path); a failed one may have
\* deleted part of the directory
Rmtree ==
    /\ pc = "recl_rmtree"
    /\ \/ /\ mirror' = [mirror EXCEPT ![RepoPath(opId)] = Absent]
          /\ trace' = Append(trace, Call("rmtree", "ok"))
          /\ pc' = "recl_clone"
          /\ UNCHANGED <<attempt, result>>
       \/ \E kind \in OSErrors, part \in BOOLEAN :
            /\ mirror' = [mirror EXCEPT ![RepoPath(opId)] =
                             IF part THEN Present(0) ELSE @]
            /\ RmtreeExcept(kind)
    /\ UNCHANGED <<mirror0, opName, opId, retry_count, old_commit, new_commit,
                   new_commits>>
    /\ UNCHANGED <<batchVars, pathVars, auxVars>>

\* line 165: Repo.clone_from
RecloneFrom ==
    /\ pc = "recl_clone"
    /\ \/ \E h \in 1..MaxCommits :
            /\ mirror' = [mirror EXCEPT ![RepoPath(opId)] = Present(h)]
            /\ trace' = Append(trace, Call("clone", "ok"))
            /\ pc' = "recl_config1"
            /\ UNCHANGED result
       \/ \E kind \in {"git", "other"}, left \in BOOLEAN :
            /\ mirror' = [mirror EXCEPT ![RepoPath(opId)] =
                             IF left THEN Present(0) ELSE Absent]
            /\ RecloneExcept("clone", kind)
    /\ UNCHANGED <<mirror0, opName, opId, retry_count, attempt, old_commit,
                   new_commit, new_commits>>
    /\ UNCHANGED <<batchVars, pathVars, auxVars>>

\* lines 167-168: Repo(repo_path); repo.git.config('core.longpaths', 'true')
RecloneConfig1 ==
    /\ pc = "recl_config1"
    /\ \/ /\ trace' = Append(trace, Call("config_longpaths", "ok"))
          /\ pc' = "recl_config2"
          /\ UNCHANGED result
       \/ \E kind \in {"git", "other"} : RecloneExcept("config_longpaths", kind)
    /\ UNCHANGED <<mirror, mirror0, opName, opId, retry_count, attempt,
                   old_commit, new_commit, new_commits>>
    /\ UNCHANGED <<batchVars, pathVars, auxVars>>

\* lines 169-170: repo.git.config('core.quotepath', 'false'); return
RecloneConfig2 ==
    /\ pc = "recl_config2"
    /\ \/ /\ trace' = Append(trace, Call("config_quotepath", "ok"))
          /\ Return([repo |-> opId, status |-> "recloned"])
       \/ \E kind \in {"git", "other"} : RecloneExcept("config_quotepath", kind)
    /\ UNCHANGED <<mirror, mirror0, opName, opId, retry_count, attempt,
                   old_commit, new_commit, new_commits>>
    /\ UNCHANGED <<batchVars, pathVars, auxVars>>

reclone_repo ==
    RecloneCheck \/ Rmtree \/ RecloneFrom \/ RecloneConfig1 \/ RecloneConfig2

SyncInit == SyncIdle /\ BatchIdle /\ PathIdle /\ AuxIdle

SyncNext ==
    \/ CloneCall \/ clone_repo
    \/ UpdateCall \/ update_repo
    \/ RecloneCall \/ reclone_repo

Spec == SyncInit /\ [][SyncNext]_vars

(***************************************************************************)
(* main.py: process_repos_parallel and process_repos_sequential.           *)
(* operation_func is a parameter: a call of it ends with a tagged result   *)
(* or raises.                                                              *)
(***************************************************************************)
\* a pool that starts one thread per work item
ThreadPerItem == 1..Len(repos)

\* line 69: ThreadPoolExecutor(max_workers=MAX_WORKERS)
Workers == 1..MAX_WORKERS
Items == 1..Len(repos)

\* what operation_func(repo) may do: return a result with one of these
\* statuses, or raise
OpStatuses == {"no_changes", "error"}

OpResult(repo, status) == [repo |-> repo, status |-> status]

IdleWorker == [pc |-> "idle", item |-> 0, status |-> "none", loaded |-> 0]

\* print_progress(current, total, repo_name, status)
Progress(current, repo, phase) == <<current, repo, phase>>

\* the menu's choices 1 and 2 call one of the two with the loaded list
BatchInit ==
    /\ SyncIdle
    /\ PathIdle
    /\ AuxIdle
    /\ repos \in {r \in SeqsUpTo(BatchIds, MaxRepos) : Len(r) >= 1}
    /\ parallel \in BOOLEAN
    /\ MAX_WORKERS \in 1..MaxPool
    /\ mainpc = IF parallel THEN "submit" ELSE "seq_before"
    /\ nextSubmit = 1
    /\ queue = <<>>
    /\ worker = [w \in Workers |-> IdleWorker]
    /\ future = [i \in Items |-> "none"]
    /\ futureResult = [i \in Items |-> OpResult(repos[i], "none")]
    /\ collected = {}
    /\ lock = 0
    /\ completed = 0
    /\ progress = <<>>
    /\ results = <<>>

\* line 70: executor.submit(process_with_progress, repo), one per element
Submit ==
    /\ mainpc = "submit"
    /\ queue' = Append(queue, nextSubmit)
    /\ future' = [future EXCEPT ![nextSubmit] = "pending"]
    /\ nextSubmit' = nextSubmit + 1
    /\ mainpc' = IF nextSubmit = Len(repos) THEN "collect" ELSE "submit"
    /\ UNCHANGED <<repos, parallel, MAX_WORKERS, worker, futureResult,
                   collected, lock, completed, progress, results>>
    /\ UNCHANGED <<syncVars, pathVars, auxVars>>

\* a pool thread takes the next work item
WorkerTake(w) ==
    /\ worker[w].pc = "idle"
    /\ queue # <<>>
    /\ worker' = [worker EXCEPT ![w] =
                     [IdleWorker EXCEPT !.pc = "op", !.item = Head(queue)]]
    /\ queue' = Tail(queue)
    /\ future' = [future EXCEPT ![Head(queue)] = "running"]
    /\ UNCHANGED <<repos, parallel, MAX_WORKERS, mainpc, nextSubmit,
                   futureResult, collected, lock, completed, progress, results>>
    /\ UNCHANGED <<syncVars, pathVars, auxVars>>

\* line 57: result = operation_func(repo)
WorkerOp(w) ==
    /\ worker[w].pc = "op"
    /\ \/ \E st \in OpStatuses :
            /\ worker' = [worker EXCEPT ![w].pc = "acquire", ![w].status = st]
            /\ UNCHANGED future
       \/ /\ worker' = [worker EXCEPT ![w] = IdleWorker]
          /\ future' = [future EXCEPT ![worker[w].item] = "raised"]
    /\ UNCHANGED <<repos, parallel, MAX_WORKERS, mainpc, nextSubmit, queue,
                   futureResult, collected, lock, completed, progress, results>>
    /\ UNCHANGED <<syncVars, pathVars, auxVars>>

\* line 58 with no lock to wait for
WorkerAcquireNoLock(w) ==
    /\ worker[w].pc = "acquire"
    /\ lock' = w
    /\ worker' = [worker EXCEPT ![w].pc = "load"]
    /\ UNCHANGED <<repos, parallel, MAX_WORKERS, mainpc, nextSubmit, queue,
                   future, futureResult, collected, completed, progress,
                   results>>
    /\ UNCHANGED <<syncVars, pathVars, auxVars>>

\* line 58: with lock
WorkerAcquire(w) ==
    /\ worker[w].pc = "acquire"
    /\ lock = 0
    /\ lock' = w
    /\ worker' = [worker EXCEPT ![w].pc = "load"]
    /\ UNCHANGED <<repos, parallel, MAX_WORKERS, mainpc, nextSubmit, queue,
                   future, futureResult, collected, completed, progress,
                   results>>
    /\ UNCHANGED <<syncVars, pathVars, auxVars>>

\* line 59: completed += 1 reads the counter ...
WorkerLoad(w) ==
    /\ worker[w].pc = "load"
    /\ worker' = [worker EXCEPT ![w].pc = "store", ![w].loaded = completed]
    /\ UNCHANGED <<repos, parallel, MAX_WORKERS, mainpc, nextSubmit, queue,
                   future, futureResult, collected, lock, completed, progress,
                   results>>
    /\ UNCHANGED <<syncVars, pathVars, auxVars>>

\* ... and writes it back; lines 60-66: print_progress(completed, ...)
WorkerStore(w) ==
    /\ worker[w].pc = "store"
    /\ completed' = worker[w].loaded + 1
    /\ progress' = Append(progress,
                          Progress(completed', repos[worker[w].item], "end"))
    /\ worker' = [worker EXCEPT ![w].pc = "release"]
    /\ UNCHANGED <<repos, parallel, MAX_WORKERS, mainpc, nextSubmit, queue,
                   future, futureResult, collected, lock, results>>
    /\ UNCHANGED <<syncVars, pathVars, auxVars>>

\* line 67: the lock is released, the result returned, the future set
WorkerRelease(w) ==
    /\ worker[w].pc = "release"
    /\ lock' = 0
    /\ future' = [future EXCEPT ![worker[w].item] = "done"]
    /\ futureResult' = [futureResult EXCEPT ![worker[w].item] =
                           OpResult(repos[worker[w].item], worker[w].status)]
    /\ worker' = [worker EXCEPT ![w] = IdleWorker]
    /\ UNCHANGED <<repos, parallel, MAX_WORKERS, mainpc, nextSubmit, queue,
                   collected, completed, progress, results>>
    /\ UNCHANGED <<syncVars, pathVars, auxVars>>

\* a results.append that leaves out the results with status error
AppendResultSkipError(rs, r) == IF r.status = "error" THEN rs ELSE Append(rs, r)

\* line 72: results.append(future.result())
AppendResult(rs, r) == Append(rs, r)

\* lines 71-72: as_completed yields a finished future; future.result()
\* returns its result or raises what the worker raised
Collect ==
    /\ mainpc = "collect"
    /\ \E i \in Items \ collected :
          /\ future[i] \in {"done", "raised"}
          /\ collected' = collected \cup {i}
          /\ IF future[i] = "done"
               THEN /\ results' = AppendResult(results, futureResult[i])
                    /\ mainpc' = IF collected' = Items THEN "shutdown"
                                                       ELSE "collect"
               ELSE /\ mainpc' = "shutdown_exc"
                    /\ UNCHANGED results
    /\ UNCHANGED <<repos, parallel, MAX_WORKERS, nextSubmit, queue, worker,
                   future, futureResult, lock, completed, progress>>
    /\ UNCHANGED <<syncVars, pathVars, auxVars>>

\* the pool has run every work item and its threads are joined
PoolDrained == queue = <<>> /\ \A w \in Workers : worker[w].pc = "idle"

\* an exit of the with statement that does not wait: shutdown(wait=False)
ShutdownGuardNoWait == TRUE

\* line 69, leaving the with statement: executor.shutdown(wait=True)
ShutdownGuard == PoolDrained

\* lines 69 and 74: the with statement is left, normally (return results)
\* or by the exception of future.result()
Shutdown ==
    /\ mainpc \in {"shutdown", "shutdown_exc"}
    /\ ShutdownGuard
    /\ mainpc' = IF mainpc = "shutdown" THEN "returned" ELSE "raised"
    /\ UNCHANGED <<repos, parallel, MAX_WORKERS, nextSubmit, queue, worker,
                   future, futureResult, collected, lock, completed, progress,
                   results>>
    /\ UNCHANGED <<syncVars, pathVars, auxVars>>

process_repos_parallel ==
    \/ Submit
    \/ \E w \in Workers : WorkerTake(w)
    \/ \E w \in Workers : WorkerOp(w)
    \/ \E w \in Workers : WorkerAcquire(w)
    \/ \E w \in Workers : WorkerLoad(w)
    \/ \E w \in Workers : WorkerStore(w)
    \/ \E w \in Workers : WorkerRelease(w)
    \/ Collect
    \/ Shutdown

\* lines 79-83: print_progress(i, len(repos), repo, "cloning...")
SeqBefore ==
    /\ mainpc = "seq_before"
    /\ progress' = Append(progress, Progress(nextSubmit, repos[nextSubmit], "start"))
    /\ mainpc' = "seq_op"
    /\ UNCHANGED <<repos, parallel, MAX_WORKERS, nextSubmit, queue, worker,
                   future, futureResult, collected, lock, completed, results>>
    /\ UNCHANGED <<syncVars, pathVars, auxVars>>

\* lines 84-85: result = operation_func(repo); results.append(result)
SeqOp ==
    /\ mainpc = "seq_op"
    /\ \/ \E st \in OpStatuses :
            /\ results' = Append(results, OpResult(repos[nextSubmit], st))
            /\ mainpc' = "seq_after"
       \/ /\ mainpc' = "raised"
          /\ UNCHANGED results
    /\ UNCHANGED <<repos, parallel, MAX_WORKERS, nextSubmit, queue, worker,
                   future, futureResult, collected, lock, completed, progress>>
    /\ UNCHANGED <<syncVars, pathVars, auxVars>>

\* lines 86-93 with no print_progress after the operation
SeqAfterNoProgress ==
    /\ mainpc = "seq_after"
    /\ nextSubmit' = nextSubmit + 1
    /\ mainpc' = IF nextSubmit = Len(repos) THEN "returned" ELSE "seq_before"
    /\ UNCHANGED <<repos, parallel, MAX_WORKERS, queue, worker, future,
                   futureResult, collected, lock, completed, progress, results>>
    /\ UNCHANGED <<syncVars, pathVars, auxVars>>

\* lines 86-93: print_progress(i, ..., status); next element or return
SeqAfter ==
    /\ mainpc = "seq_after"
    /\ progress' = Append(progress, Progress(nextSubmit, repos[nextSubmit], "end"))
    /\ nextSubmit' = nextSubmit + 1
    /\ mainpc' = IF nextSubmit = Len(repos) THEN "returned" ELSE "seq_before"
    /\ UNCHANGED <<repos, parallel, MAX_WORKERS, queue, worker, future,
                   futureResult, collected, lock, completed, results>>
    /\ UNCHANGED <<syncVars, pathVars, auxVars>>

process_repos_sequential == SeqBefore \/ SeqOp \/ SeqAfter

BatchNext == process_repos_parallel \/ process_repos_sequential

BatchSpec == BatchInit /\ [][BatchNext]_vars

\* the main thread and the pool's threads run whenever they can, and a
\* call of operation_func returns or raises
BatchFairSpec == BatchSpec /\ WF_vars(BatchNext)

(***************************************************************************)
(* The path mapping applied to two identifiers of the form owner/name.     *)
(***************************************************************************)
PathInit ==
    /\ SyncIdle
    /\ BatchIdle
    /\ AuxIdle
    /\ id1 \in IdSpace
    /\ id2 \in IdSpace
    /\ path1 = <<>>
    /\ path2 = <<>>

\* git_operations.py line 26 (and 49, 109, 130, 152; search.py line 37)
DerivePaths ==
    /\ path1 = <<>>
    /\ path1' = RepoPath(id1)
    /\ path2' = RepoPath(id2)
    /\ UNCHANGED <<id1, id2>>
    /\ UNCHANGED <<syncVars, batchVars, auxVars>>

PathNext == DerivePaths

PathSpec == PathInit /\ [][PathNext]_vars

(***************************************************************************)
(* utils.py: print_summary(results, operation) over the results a batch    *)
(* of clone_repo or update_repo calls returns.                             *)
(***************************************************************************)
\* a result of update_repo with status updated or updated_forced whose log
\* gave n commits (lines 65-72 and 91-98 of git_operations.py)
UpdatedResult(status, n) ==
    [repo |-> <<"a", "/", "a">>, status |-> status, old_commit |-> 1,
     new_commit |-> 2, new_commits_count |-> n,
     new_commits |-> [k \in 1..n |-> k]]

\* the results clone_repo and update_repo return
SyncResults ==
    {[repo |-> <<"a", "/", "a">>, status |-> st] :
        st \in {"cloned", "already_cloned", "not_cloned", "no_changes"}}
    \cup {[repo |-> <<"a", "/", "a">>, status |-> "error",
           message |-> GitCommandError("clone", MAX_RETRIES)]}
    \cup {UpdatedResult(st, n) :
            st \in {"updated", "updated_forced"}, n \in 0..MaxCommits}

\* r.get(key, default)
Get(r, key, default) == IF key \in DOMAIN r THEN r[key] ELSE default

\* sum(f(r) for r in results)
RECURSIVE Sum(_, _)
Sum(F(_), rs) == IF rs = <<>> THEN 0 ELSE F(Head(rs)) + Sum(F, Tail(rs))

\* line 31
Total(rs) == Len(rs)

\* line 32
Success(rs) ==
    LET One(r) ==
          IF Get(r, "status", "None") \in
               {"cloned", "updated", "updated_forced", "recloned",
                "already_cloned", "no_changes"}
            THEN 1 ELSE 0
    IN  Sum(One, rs)

\* line 33
Errors(rs) ==
    LET One(r) == IF Get(r, "status", "None") = "error" THEN 1 ELSE 0
    IN  Sum(One, rs)

\* line 34
Updated(rs) ==
    LET One(r) ==
          IF Get(r, "status", "None") \in {"updated", "updated_forced"}
            THEN 1 ELSE 0
    IN  Sum(One, rs)

\* a total that counts the results carrying a commit count
NewCommitsTotalCountsResults(rs) ==
    LET One(r) == IF "new_commits_count" \in DOMAIN r THEN 1 ELSE 0
    IN  Sum(One, rs)

\* line 35
NewCommitsTotal(rs) ==
    LET One(r) ==
          IF "new_commits_count" \in DOMAIN r
            THEN Get(r, "new_commits_count", 0) ELSE 0
    IN  Sum(One, rs)

SummaryInit ==
    /\ SyncIdle /\ BatchIdle /\ PathIdle
    /\ SearchIdle /\ HistoryIdle /\ MenuIdle
    /\ \E rs \in SeqsUpTo(SyncResults, MaxRepos) :
          summary = [pc |-> "call", results |-> rs]

\* lines 29-35
print_summary ==
    /\ summary.pc = "call"
    /\ summary' = [pc |-> "done",
                   results |-> summary.results,
                   total |-> Total(summary.results),
                   success |-> Success(summary.results),
                   errors |-> Errors(summary.results),
                   updated |-> Updated(summary.results),
                   new_commits_total |-> NewCommitsTotal(summary.results)]
    /\ UNCHANGED <<syncVars, batchVars, pathVars, search, history, menu>>

SummaryNext == print_summary

SummarySpec == SummaryInit /\ [][SummaryNext]_vars

(***************************************************************************)
(* search.py: search_in_repos(query, repos).                               *)
(* A mirror's history is a record [n, hits]: n commits, most recent        *)
(* first, the commit at position i being named i; the commits at the       *)
(* positions of hits carry the message "Fix", the others "add".            *)
(***************************************************************************)
SearchIds == SyncIds

Min(a, b) == IF a < b THEN a ELSE b

\* str.lower(), on the letters the messages and queries are made of
LowerChar(c) ==
    CASE c = "A" -> "a"
      [] c = "F" -> "f"
      [] c = "I" -> "i"
      [] c = "X" -> "x"
      [] OTHER -> c

Lower(s) == [i \in 1..Len(s) |-> LowerChar(s[i])]

Queries == {<<"I", "X">>, <<"z">>}

\* the lengths of the histories: none, max_count and more
LogLengths == {0} \cup {max_count + k : k \in 0..(MaxCommits - 1)}

\* the positions where a matching message may be
HitPositions == {1, max_count, max_count + 1}

Logs ==
    {l \in {[n |-> n, hits |-> h] :
               n \in LogLengths, h \in SUBSET HitPositions} :
        l.hits \subseteq 1..l.n}

\* commit.message of the commit at position i
MessageOf(log, i) ==
    IF i \in log.hits THEN <<"F", "i", "x">> ELSE <<"a", "d", "d">>

\* repo.iter_commits() with no bound
ScanAll(log) == [i \in 1..log.n |-> i]

\* line 44: repo.iter_commits(max_count=100), the positions it yields
Scan(log) == [i \in 1..Min(log.n, max_count) |-> i]

\* lines 43-51: the matches of one repository
Matches(log, query) ==
    LET query_lower == Lower(query)
        Hit(i) == In(query_lower, Lower(MessageOf(log, i)))
    IN  [k \in 1..Len(SelectSeq(Scan(log), Hit)) |->
            [hash |-> SelectSeq(Scan(log), Hit)[k],
             message |-> MessageOf(log, SelectSeq(Scan(log), Hit)[k])]]

\* lines 53-58 with no test of matches
AppendEntryAlways(rs, repo_name, matches) ==
    Append(rs, [repo |-> repo_name, matches |-> matches,
                count |-> Len(matches)])

\* lines 53-58
AppendEntry(rs, repo_name, matches) ==
    IF matches # <<>>
      THEN Append(rs, [repo |-> repo_name, matches |-> matches,
                       count |-> Len(matches)])
      ELSE rs

SearchStores ==
    [{RepoPath(id) : id \in SearchIds} ->
        {[present |-> FALSE, log |-> [n |-> 0, hits |-> {}]]} \cup
        {[present |-> TRUE, log |-> l] : l \in Logs}]

\* main's choice 9: a query and the loaded list
SearchInit ==
    /\ SyncIdle /\ BatchIdle /\ PathIdle
    /\ SummaryIdle /\ HistoryIdle /\ MenuIdle
    /\ \E q \in Queries, rs \in SeqsUpTo(SearchIds, MaxRepos), st \in SearchStores :
          search = [pc |-> "loop", query |-> q, repos |-> rs, store |-> st,
                    i |-> 1, scanned |-> <<>>, results |-> <<>>]

\* lines 36-60: one turn of the loop; scanned records how the turn ended
SearchRepo ==
    /\ search.pc = "loop"
    /\ search.i <= Len(search.repos)
    /\ LET repo_name == search.repos[search.i]
           m == search.store[RepoPath(repo_name)]
       IN  \/ /\ ~m.present
              /\ search' = [search EXCEPT !.i = @ + 1,
                                          !.scanned = Append(@, "absent")]
           \/ /\ m.present
              /\ search' = [search EXCEPT
                               !.i = @ + 1,
                               !.scanned = Append(@, "ok"),
                               !.results = AppendEntry(@, repo_name,
                                              Matches(m.log, search.query))]
           \* lines 59-60: Repo(), iter_commits or a commit's attribute raised
           \/ /\ m.present
              /\ search' = [search EXCEPT !.i = @ + 1,
                                          !.scanned = Append(@, "failed")]
    /\ UNCHANGED <<syncVars, batchVars, pathVars, summary, history, menu>>

\* line 62
SearchReturn ==
    /\ search.pc = "loop"
    /\ search.i > Len(search.repos)
    /\ search' = [search EXCEPT !.pc = "returned"]
    /\ UNCHANGED <<syncVars, batchVars, pathVars, summary, history, menu>>

search_in_repos == SearchRepo \/ SearchReturn

SearchSpec == SearchInit /\ [][search_in_repos]_vars

(***************************************************************************)
(* git_operations.py: view_commit_history(repo_name, limit).               *)
(* limit is [given, value]: given is FALSE for None.  The commits of the   *)
(* mirror are named by their positions 1..n, most recent first.            *)
(***************************************************************************)
Limits ==
    {[given |-> FALSE, value |-> 0]} \cup
    {[given |-> TRUE, value |-> v] : v \in 0..(MaxCommits + 1)}

\* the truth value Python gives to limit: None and 0 are false
Truthy(limit) == limit.given /\ limit.value # 0

\* repo.iter_commits(max_count=limit) and repo.iter_commits()
IterCommits(n, limit) ==
    IF limit.given THEN [i \in 1..Min(limit.value, n) |-> i]
                   ELSE [i \in 1..n |-> i]

\* line 136
Commits(n, limit) ==
    IF Truthy(limit) THEN IterCommits(n, limit)
                     ELSE IterCommits(n, [given |-> FALSE, value |-> 0])

\* main's choice 4: an identifier of the list and a limit
HistoryInit ==
    /\ SyncIdle /\ BatchIdle /\ PathIdle
    /\ SummaryIdle /\ SearchIdle /\ MenuIdle
    /\ \E id \in SyncIds, l \in Limits, p \in BOOLEAN, n \in 0..(MaxCommits + 1) :
          /\ ~p => n = 0
          /\ history = [pc |-> "check", repo_name |-> id, limit |-> l,
                        present |-> p, n |-> n, commits |-> <<>>,
                        printed |-> "nothing"]

\* lines 130-133
HistoryCheck ==
    /\ history.pc = "check"
    /\ history' = IF history.present
                    THEN [history EXCEPT !.pc = "list"]
                    ELSE [history EXCEPT !.pc = "done", !.printed = "not cloned"]
    /\ UNCHANGED <<syncVars, batchVars, pathVars, summary, search, menu>>

\* lines 134-148
HistoryList ==
    /\ history.pc = "list"
    /\ \/ history' = [history EXCEPT
                         !.pc = "done",
                         !.commits = Commits(history.n, history.limit),
                         !.printed = IF Commits(history.n, history.limit) # <<>>
                                       THEN "history" ELSE "no commits"]
       \* lines 147-148: Repo() or iter_commits raised
       \/ history' = [history EXCEPT !.pc = "done", !.printed = "error"]
    /\ UNCHANGED <<syncVars, batchVars, pathVars, summary, search, menu>>

view_commit_history == HistoryCheck \/ HistoryList

HistorySpec == HistoryInit /\ [][view_commit_history]_vars

(***************************************************************************)
(* main.py: choice 8 (filter_repos, "use filtered repositories") followed  *)
(* by choice 2 (update_repo over main's repos).  The batch is reduced to   *)
(* the calls of update_repo it makes, in the order it starts them.         *)
(***************************************************************************)
\* identifiers of the list: two with the same local path, one with capitals
FilterIds ==
    {<<"a", "/", "a", "_", "a">>, <<"a", "_", "a", "/", "a">>, <<"A", "/", "a">>}

FilterPaths == {RepoPath(id) : id \in FilterIds}

\* what the user types: a text that is a regular expression matching
\* itself only, or one that does not compile
Patterns ==
    {[valid |-> TRUE, text |-> t] :
        t \in {<<"/", "a", "_">>, <<"a", "/", "a">>, <<"z">>}}
    \cup {[valid |-> FALSE, text |-> <<"(">>]}

\* line 23: regex.search(repo) with re.IGNORECASE
RegexSearch(pattern, repo) == In(Lower(pattern.text), Lower(repo))

\* search.py lines 19-29
filter_repos(rs, pattern) ==
    IF pattern.valid
      THEN SelectSeq(rs, LAMBDA repo : RegexSearch(pattern, repo))
      ELSE rs

FilterInit ==
    /\ SyncIdle /\ BatchIdle /\ PathIdle
    /\ SummaryIdle /\ SearchIdle /\ HistoryIdle
    /\ \E rs \in SeqsUpTo(FilterIds, MaxRepos), present \in SUBSET FilterPaths :
          /\ rs # <<>>
          /\ menu = [pc |-> "menu", loaded |-> rs, repos |-> rs,
                     present |-> present, filtered |-> <<>>, used |-> FALSE,
                     i |-> 1, started |-> <<>>, touched |-> {}]

\* main.py lines 267-285: choice 8
FilterChoice ==
    /\ menu.pc = "menu"
    /\ \E pattern \in Patterns, use_filtered \in BOOLEAN :
          LET filtered_repos == filter_repos(menu.repos, pattern)
          IN  menu' = [menu EXCEPT
                          !.pc = "choice",
                          !.filtered = filtered_repos,
                          !.used = filtered_repos # <<>> /\ use_filtered,
                          !.repos = IF filtered_repos # <<>> /\ use_filtered
                                      THEN filtered_repos ELSE @]
    /\ UNCHANGED <<syncVars, batchVars, pathVars, summary, search, history>>

\* main.py lines 131-143: choice 2 hands main's repos to the batch
UpdateChoice ==
    /\ menu.pc = "choice"
    /\ menu' = [menu EXCEPT !.pc = "update", !.i = 1]
    /\ UNCHANGED <<syncVars, batchVars, pathVars, summary, search, history>>

\* main.py lines 57 and 84: operation_func(repo) with update_repo, which
\* works on the directory of the identifier when there is one
UpdateRepo ==
    /\ menu.pc = "update"
    /\ menu.i <= Len(menu.repos)
    /\ LET repo == menu.repos[menu.i]
       IN  menu' = [menu EXCEPT
                       !.i = @ + 1,
                       !.started = Append(@, repo),
                       !.touched = IF RepoPath(repo) \in menu.present
                                     THEN @ \cup {RepoPath(repo)} ELSE @]
    /\ UNCHANGED <<syncVars, batchVars, pathVars, summary, search, history>>

\* main.py lines 74 and 93: the batch returns
UpdateReturn ==
    /\ menu.pc = "update"
    /\ menu.i > Len(menu.repos)
    /\ menu' = [menu EXCEPT !.pc = "done"]
    /\ UNCHANGED <<syncVars, batchVars, pathVars, summary, search, history>>

FilterNext == FilterChoice \/ UpdateChoice \/ UpdateRepo \/ UpdateReturn

FilterSpec == FilterInit /\ [][FilterNext]_vars

(***************************************************************************)
(* Properties of update_repo and clone_repo (Spec).                        *)
(***************************************************************************)
Updating == opName = "update"
Cloning == opName = "clone"
Done == pc = "done"

\* the collaborator calls of the try block of lines 53-74
TryCalls == {"open", "head", "pull", "build"}

Fetched(i) == trace[i][1] \in {"fetch", "reset"}

\* C1 as stated: in update, a fetch or a hard reset happens only after a
\* pull that was attempted and failed with a VCS error, and every hard reset
\* comes after a fetch.
C1_ForcedOnlyAfterFailedPull ==
    Updating =>
        \A i \in 1..Len(trace) :
            /\ Fetched(i) => \E j \in 1..(i - 1) : trace[j] = Call("pull", "git")
            /\ trace[i][1] = "reset" =>
                   \E j \in 1..(i - 1) : trace[j] = Call("fetch", "ok")

\* C1 amended: in update, a fetch or a hard reset happens only after a
\* GitCommandError of the try block (raised by the pull, or by opening the
\* mirror, reading the head or building the record), never after a try block
\* that raised none, and every hard reset comes after a successful fetch.
C1_ForcedOnlyAfterVcsError ==
    Updating =>
        \A i \in 1..Len(trace) :
            /\ Fetched(i) =>
                   \E j \in 1..(i - 1) :
                       /\ trace[j][2] = "git"
                       /\ trace[j][1] \in TryCalls
            /\ trace[i][1] = "reset" =>
                   \E j \in 1..(i - 1) : trace[j] = Call("fetch", "ok")

\* C1 witness: a forced sync that ran to its end after a failed pull
C1_Witness ==
    /\ Updating /\ Done
    /\ result.status = "updated_forced"
    /\ \E j \in 1..Len(trace) : trace[j] = Call("pull", "git")
    /\ \E j \in 1..Len(trace) : trace[j] = Call("reset", "ok")

\* C2: update_repo never raises: whatever fails in the pull step or in the
\* forced sync, the call ends with a returned result.
C2_UpdateNeverRaises ==
    (Updating /\ Done) => result.status # "RAISED"

\* C8: clone on a present mirror returns already_cloned, calls no
\* collaborator and leaves the mirror store as it was.
C8_PresentCloneIsNoop ==
    (Cloning /\ mirror0[RepoPath(opId)].present) =>
        /\ trace = <<>>
        /\ mirror = mirror0
        /\ Done => result = [repo |-> opId, status |-> "already_cloned"]

C8_Witness ==
    /\ Cloning /\ Done
    /\ mirror0[RepoPath(opId)].present
    /\ result.status = "already_cloned"

\* C9: clone on an absent mirror never returns updated, no_changes or
\* recloned, whatever its attempts did.
C9_AbsentCloneStatus ==
    (Cloning /\ Done /\ ~mirror0[RepoPath(opId)].present) =>
        result.status \notin {"updated", "no_changes", "recloned"}

C9_Witness ==
    /\ Cloning /\ Done
    /\ ~mirror0[RepoPath(opId)].present
    /\ retry_count > 0
    /\ result.status = "cloned"

CloneAttempts == {i \in 1..Len(trace) : trace[i][1] = "clone"}
Sleeps == {i \in 1..Len(trace) : trace[i][1] = "sleep"}

\* C10: when every clone attempt on an absent mirror fails with a VCS
\* error, clone makes MAX_RETRIES + 1 attempts, sleeps between consecutive
\* attempts and not after the last, and returns error with the message of
\* the last attempt.
C10_RetriesThenError ==
    ( /\ Cloning /\ Done
      /\ ~mirror0[RepoPath(opId)].present
      /\ CloneAttempts # {}
      /\ \A i \in CloneAttempts : trace[i][2] = "git" ) =>
        /\ result.status = "error"
        /\ result.message = GitCommandError("clone", MAX_RETRIES)
        /\ Cardinality(CloneAttempts) = MAX_RETRIES + 1
        /\ Cardinality(Sleeps) = MAX_RETRIES
        /\ trace[Len(trace)][1] # "sleep"

\* C11: clone_repo never raises: whatever fails in the clone or in the
\* configuration that follows it, the call ends with a returned result.
C11_CloneNeverRaises ==
    (Cloning /\ Done) => result.status # "RAISED"

\* C12: update on an absent mirror returns not_cloned at once: it calls no
\* collaborator and leaves the mirror store as it was.
C12_AbsentUpdateIsNoop ==
    (Updating /\ ~mirror0[RepoPath(opId)].present) =>
        /\ trace = <<>>
        /\ mirror = mirror0
        /\ pc \in {"upd_check", "done"}
        /\ Done => result = [repo |-> opId, status |-> "not_cloned"]

C12_Witness ==
    /\ Updating /\ Done
    /\ ~mirror0[RepoPath(opId)].present
    /\ result.status = "not_cloned"

\* C13: when the head read after the pull, or after the forced sync, is
\* the head recorded before, update returns no_changes in a record that
\* holds nothing but the identifier and the status.
C13_SameHeadNoChanges ==
    (Updating /\ Done /\ new_commit # 0 /\ new_commit = old_commit) =>
        /\ result.status = "no_changes"
        /\ DOMAIN result = {"repo", "status"}
        /\ result.repo = opId

\* C13 witness: no_changes after a forced sync that left the head as it was
C13_Witness ==
    /\ Updating /\ Done
    /\ new_commit # 0 /\ new_commit = old_commit
    /\ result.status = "no_changes"
    /\ \E i \in 1..Len(trace) : trace[i] = Call("reset", "ok")

UpdatedStatuses == {"updated", "updated_forced"}

\* the outcome of the last log of the running call ("none": no log yet)
LastLog ==
    LET logs == {i \in 1..Len(trace) : trace[i][1] = "log"}
    IN  IF logs = {} THEN "none"
        ELSE trace[CHOOSE i \in logs : \A j \in logs : j <= i][2]

\* C14: a result with status updated or updated_forced has old_commit #
\* new_commit and new_commits_count = len(new_commits), where new_commits
\* is the log of old_commit..new_commit, most recent first, or the empty
\* list when that log failed.
C14_UpdatedRecord ==
    (Updating /\ Done /\ result.status \in UpdatedStatuses) =>
        /\ result.old_commit # result.new_commit
        /\ result.old_commit = old_commit
        /\ result.new_commit = HeadCommit
        /\ result.new_commits_count = Len(result.new_commits)
        /\ result.new_commits =
               IF LastLog = "ok"
                 THEN CommitRange(result.old_commit, result.new_commit)
                 ELSE <<>>

C14_Witness ==
    /\ Updating /\ Done
    /\ result.status = "updated"
    /\ result.new_commits_count = 1
    /\ result.new_commits = <<result.new_commit>>

\* C15 as stated: updated is returned only when the pull succeeded and
\* changed the head; updated_forced only when the pull failed with a VCS
\* error and the forced sync that followed succeeded and left a head
\* different from the one recorded before the pull.
C15_StatusRecordsPath ==
    (Updating /\ Done) =>
        /\ result.status = "updated" =>
               /\ \E i \in 1..Len(trace) : trace[i] = Call("pull", "ok")
               /\ \A i \in 1..Len(trace) : trace[i][2] # "git"
               /\ result.old_commit # result.new_commit
        /\ result.status = "updated_forced" =>
               /\ \E i \in 1..Len(trace) : trace[i] = Call("pull", "git")
               /\ \E i \in 1..Len(trace) : trace[i] = Call("reset", "ok")
               /\ result.old_commit # result.new_commit

\* C15 amended: updated is returned only when the pull succeeded and
\* changed the head, with no VCS error in the call; updated_forced only when
\* a call of the try block (the pull, or opening the mirror, reading the
\* head, building the record) failed with a VCS error and the forced sync
\* that followed succeeded and left a head different from old_commit.
C15_StatusRecordsVcsError ==
    (Updating /\ Done) =>
        /\ result.status = "updated" =>
               /\ \E i \in 1..Len(trace) : trace[i] = Call("pull", "ok")
               /\ \A i \in 1..Len(trace) : trace[i][2] # "git"
               /\ result.old_commit # result.new_commit
        /\ result.status = "updated_forced" =>
               /\ \E i \in 1..Len(trace) :
                     /\ trace[i][2] = "git"
                     /\ trace[i][1] \in TryCalls
                     /\ \E j \in (i + 1)..Len(trace) : trace[j] = Call("fetch", "ok")
                     /\ \E j \in (i + 1)..Len(trace) : trace[j] = Call("reset", "ok")
               /\ result.old_commit # result.new_commit

C15_Witness ==
    /\ Updating /\ Done
    /\ result.status = "updated_forced"
    /\ \E i \in 1..Len(trace) : trace[i] = Call("pull", "ok")
    /\ \E i \in 1..Len(trace) : trace[i] = Call("build", "git")

GitFailures == {i \in 1..Len(trace) : trace[i][2] = "git"}

\* C16: when the forced sync fails with a VCS error, update returns error
\* with the message of that failure and stops; an update never deletes a
\* mirror directory and never calls the clone primitive.
C16_ForcedFailureIsError ==
    Updating =>
        /\ \A i \in 1..Len(trace) : trace[i][1] \notin {"clone", "rmtree"}
        /\ \A p \in Paths : mirror[p].present = mirror0[p].present
        /\ Cardinality(GitFailures) >= 2 =>
               /\ Done
               /\ trace[Len(trace)][2] = "git"
               /\ result = [repo |-> opId, status |-> "error",
                            message |-> <<"Failed to update",
                                GitCommandError(trace[Len(trace)][1], 0)>>]

C16_Witness ==
    /\ Updating /\ Done
    /\ result.status = "error"
    /\ Cardinality(GitFailures) = 2
    /\ trace[Len(trace)] = Call("reset", "git")

\* C17: when the head changed and the log of old..new fails, update still
\* returns updated (updated_forced on the forced path) with new_commits
\* empty and new_commits_count 0.
C17_FailedLogStillUpdated ==
    (Updating /\ Done /\ LastLog = "other") =>
        /\ result.status = IF GitFailures = {} THEN "updated" ELSE ForcedStatus
        /\ result.new_commits = <<>>
        /\ result.new_commits_count = 0
        /\ result.old_commit # result.new_commit

C17_Witness ==
    /\ Updating /\ Done
    /\ LastLog = "other"
    /\ result.status = "updated_forced"

\* the pull of line 57 raised something that is not a GitCommandError
PullFailedUnclassified ==
    \E i \in 1..Len(trace) : trace[i] = Call("pull", "other")

\* C31: when the pull fails with an error that is not a VCS error, update
\* returns error without attempting the forced sync: no fetch and no hard
\* reset is called, and the mirror is left as the failed pull left it.
C31_UnclassifiedPullFailureIsError ==
    (Updating /\ PullFailedUnclassified) =>
        /\ Done
        /\ trace[Len(trace)] = Call("pull", "other")
        /\ \A i \in 1..Len(trace) : trace[i][1] \notin {"fetch", "branch", "reset"}
        /\ \A i \in 1..(Len(trace) - 1) : trace[i][2] = "ok"
        /\ result = [repo |-> opId, status |-> "error",
                     message |-> <<"Unexpected error", OtherError("pull", 0)>>]
        /\ mirror = mirror0

C31_Witness ==
    /\ Updating /\ Done
    /\ PullFailedUnclassified
    /\ result.status = "error"
    /\ old_commit # 0

(***************************************************************************)
(* Properties of reclone_repo (Spec).                                      *)
(***************************************************************************)
Recloning == opName = "reclone"

RmtreeCalls == {i \in 1..Len(trace) : trace[i][1] = "rmtree"}
CloneCalls == {i \in 1..Len(trace) : trace[i][1] = "clone"}

\* the directory existed and no delete of the running call has succeeded
NoDeleteSucceeded ==
    /\ Recloning
    /\ mirror0[RepoPath(opId)].present
    /\ \A i \in RmtreeCalls : trace[i][2] # "ok"

\* C18: when the mirror directory exists and every delete attempt fails,
\* reclone makes exactly 5 delete attempts, sleeps between consecutive
\* attempts and not after the last, then returns error; the clone
\* primitive is never called in that execution.
C18_FiveDeletesThenError ==
    NoDeleteSucceeded =>
        /\ CloneCalls = {}
        /\ Cardinality(RmtreeCalls) <= 5
        /\ \A i \in 1..Len(trace) :
              trace[i][1] = IF i % 2 = 1 THEN "rmtree" ELSE "sleep"
        /\ Done =>
              /\ Cardinality(RmtreeCalls) = 5
              /\ Len(trace) = 9
              /\ result.status = "error"
              /\ result.repo = opId

C18_Witness ==
    /\ NoDeleteSucceeded /\ Done
    /\ Cardinality(RmtreeCalls) = 5
    /\ result.status = "error"

\* C19: reclone returns recloned only after the clone primitive succeeded
\* and both configuration settings were applied; when the mirror existed
\* the clone is called only after a delete succeeded (one delete when the
\* first succeeds), and when nothing existed no delete is attempted.
C19_ReclonedAfterDeleteCloneConfig ==
    Recloning =>
        /\ \A i \in CloneCalls :
              IF mirror0[RepoPath(opId)].present
                THEN /\ i > 1
                     /\ trace[i - 1] = Call("rmtree", "ok")
                     /\ \A j \in RmtreeCalls : j < i /\ (trace[j][2] = "ok" <=> j = i - 1)
                ELSE i = 1
        /\ ~mirror0[RepoPath(opId)].present => RmtreeCalls = {}
        /\ (Len(trace) > 0 /\ trace[1] = Call("rmtree", "ok")) => RmtreeCalls = {1}
        /\ (Done /\ result.status = "recloned") =>
              /\ Len(trace) >= 3
              /\ SubSeq(trace, Len(trace) - 2, Len(trace)) =
                    <<Call("clone", "ok"), Call("config_longpaths", "ok"),
                      Call("config_quotepath", "ok")>>
              /\ Cardinality(CloneCalls) = 1
              /\ mirror[RepoPath(opId)].present
              /\ result = [repo |-> opId, status |-> "recloned"]

C19_Witness ==
    /\ Recloning /\ Done
    /\ mirror0[RepoPath(opId)].present
    /\ result.status = "recloned"
    /\ trace = <<Call("rmtree", "ok"), Call("clone", "ok"),
                 Call("config_longpaths", "ok"), Call("config_quotepath", "ok")>>

\* C20: when reclone returns error, the message is the access-denied
\* message exactly when the failure is a permission or lock condition, and
\* the failure's own message verbatim for every other failure.
C20_AccessDeniedIffPermissionOrLock ==
    (Recloning /\ Done /\ result.status = "error") =>
        LET kind == trace[Len(trace)][2]
        IN  result.message =
                IF PermissionOrLock(kind)
                  THEN AccessDenied(RepoPath(opId), Str(kind))
                  ELSE Str(kind)

\* C30: each retry of clone_repo is a fresh call of the clone primitive:
\* a clone called on an absent mirror ends with cloned or error and never
\* with already_cloned, also when a failed attempt left a directory at the
\* local path (a call that raises is the subject of C11).
C30_RetryIsFreshClone ==
    (Cloning /\ ~mirror0[RepoPath(opId)].present) =>
        /\ \A i \in Sleeps : i < Len(trace) => trace[i + 1][1] = "clone"
        /\ Done => result.status \in {"cloned", "error", "RAISED"}

\* the clone of the running reclone failed after a delete that succeeded
CloneFailedAfterDelete ==
    /\ Recloning
    /\ \E i \in RmtreeCalls : trace[i][2] = "ok"
    /\ \E i \in CloneCalls : trace[i][2] # "ok"

\* C32: reclone_repo never raises and calls the clone primitive at most
\* once; every call ends with recloned or error; when the clone fails
\* after a successful delete the result is error and the mirror that
\* existed before is not restored.
C32_RecloneEndsReclonedOrError ==
    Recloning =>
        /\ Cardinality(CloneCalls) <= 1
        /\ attempt < 5
        /\ ~Done => ENABLED reclone_repo
        /\ Done =>
              /\ result.status \in {"recloned", "error"}
              /\ result.repo = opId
        /\ CloneFailedAfterDelete =>
              /\ Done
              /\ result.status = "error"
              /\ trace[Len(trace)][1] = "clone"
              /\ mirror[RepoPath(opId)].head = 0

C32_Witness ==
    /\ Recloning /\ Done
    /\ mirror0[RepoPath(opId)].head >= 1
    /\ trace = <<Call("rmtree", "ok"), Call("clone", "other")>>
    /\ result.status = "error"
    /\ ~mirror[RepoPath(opId)].present

(***************************************************************************)
(* Properties of the batch orchestrator (BatchSpec).                       *)
(***************************************************************************)
Returned == mainpc = "returned"

CountIn(seq, x) == Cardinality({i \in 1..Len(seq) : seq[i] = x})
ReposOf(rs) == [i \in 1..Len(rs) |-> rs[i].repo]

\* C3: a batch call never raises: when an operation raises, in a worker or
\* in sequential mode, the call still returns normally.
C3_BatchNeverRaises == mainpc # "raised"

\* C4: a parallel batch over N identifiers returns exactly N results, one
\* per dispatched identifier, whatever the worker count, the interleaving
\* and the statuses; it is left without results only where an operation
\* raised instead of returning a status.
C4_OneResultPerIdentifier ==
    /\ (parallel /\ Returned) =>
          /\ Len(results) = Len(repos)
          /\ \A id \in BatchIds :
                CountIn(ReposOf(results), id) = CountIn(repos, id)
    /\ (parallel /\ mainpc \in {"shutdown_exc", "raised"}) =>
          \E i \in Items : future[i] = "raised"

C4_Witness ==
    /\ parallel /\ Returned
    /\ MAX_WORKERS = 2
    /\ Len(repos) = 2
    /\ \E i \in 1..Len(results) : results[i].status = "error"

\* C5: when a parallel batch call is left, every dispatched operation has
\* finished: none was cancelled or skipped after another one's error, and
\* no worker is still running.
C5_AllFinishedAtReturn ==
    (parallel /\ mainpc \in {"returned", "raised"}) =>
        /\ PoolDrained
        /\ \A i \in Items : future[i] \in {"done", "raised"}

C5_Witness ==
    /\ parallel /\ Returned
    /\ \E i \in 1..Len(results) : results[i].status = "error"
    /\ \E i \in 1..Len(results) : results[i].status # "error"

\* the local path a worker's operation works on
WorkerPath(w) == RepoPath(repos[worker[w].item])

\* C6: in a parallel batch no two operations on the same local path are in
\* flight at the same time.
C6_OnePathOneWorker ==
    \A w1, w2 \in Workers :
        (w1 # w2 /\ worker[w1].pc = "op" /\ worker[w2].pc = "op") =>
            WorkerPath(w1) # WorkerPath(w2)

\* the progress events of a sequential batch that has finished n elements
SeqProgress(n) ==
    [k \in 1..(2 * n) |->
        Progress((k + 1) \div 2, repos[(k + 1) \div 2],
                 IF k % 2 = 1 THEN "start" ELSE "end")]

\* C23: a sequential batch runs one operation at a time, in input order:
\* for each identifier a progress event before the operation and one after
\* it, before the next identifier starts; the i-th returned result is the
\* result of the i-th identifier.
C23_SequentialInOrder ==
    ~parallel =>
        /\ \A w \in Workers : worker[w].pc = "idle"
        /\ \A i \in 1..Len(results) : results[i].repo = repos[i]
        /\ mainpc = "seq_before" =>
              /\ progress = SeqProgress(nextSubmit - 1)
              /\ Len(results) = nextSubmit - 1
        /\ mainpc = "seq_op" =>
              /\ progress = Append(SeqProgress(nextSubmit - 1),
                                   Progress(nextSubmit, repos[nextSubmit], "start"))
              /\ Len(results) = nextSubmit - 1
        /\ mainpc = "seq_after" =>
              /\ progress = Append(SeqProgress(nextSubmit - 1),
                                   Progress(nextSubmit, repos[nextSubmit], "start"))
              /\ Len(results) = nextSubmit
        /\ Returned =>
              /\ progress = SeqProgress(Len(repos))
              /\ Len(results) = Len(repos)

C23_Witness ==
    /\ ~parallel /\ Returned
    /\ Len(repos) = 2
    /\ repos[1] # repos[2]
    /\ Len(progress) = 4

\* C24: in a parallel batch the completion counter loses no update: the
\* increment and the progress event happen under the lock, so the progress
\* values of a batch of N identifiers are 1, 2, ..., N in this order, each
\* once, and the counter is N when the batch returns.
C24_CounterLosesNoUpdate ==
    parallel =>
        /\ \A k \in 1..Len(progress) : progress[k][1] = k
        /\ completed = Len(progress)
        /\ \A w \in Workers :
              /\ worker[w].pc \in {"load", "store", "release"} => lock = w
              /\ worker[w].pc = "store" => worker[w].loaded = completed
        /\ Returned =>
              /\ completed = Len(repos)
              /\ Len(progress) = Len(repos)

C24_Witness ==
    /\ parallel /\ Returned
    /\ MAX_WORKERS = 2
    /\ completed = 2
    /\ progress[1][2] = repos[2]

InFlight == {i \in Items : future[i] = "running"}

\* C25: in a parallel batch at most MAX_WORKERS operations are in flight
\* at any moment; the identifiers beyond that wait in the queue until a
\* worker is free, and every dispatched identifier is processed in the end.
C25_PoolBounded ==
    /\ [](parallel =>
            /\ Cardinality(InFlight) <= MAX_WORKERS
            /\ \A i \in InFlight :
                  \E w \in 1..MAX_WORKERS :
                      worker[w].item = i /\ worker[w].pc # "idle"
            /\ \A i \in Items :
                  future[i] = "pending" <=> \E k \in 1..Len(queue) : queue[k] = i)
    /\ \A i \in 1..MaxRepos :
          (parallel /\ i \in Items /\ future[i] = "pending")
              ~> (i \in Items /\ future[i] \in {"done", "raised"})

\* C25 witness: an identifier waits while the only worker is busy
C25_Witness ==
    /\ parallel
    /\ MAX_WORKERS = 1
    /\ Len(repos) = 2
    /\ future[1] = "running"
    /\ future[2] = "pending"

(***************************************************************************)
(* Properties of the path mapping (PathSpec).                              *)
(***************************************************************************)
\* C7: two distinct identifiers of the form owner/name have different
\* local paths.
C7_PathInjective ==
    (path1 # <<>> /\ id1 # id2) => path1 # path2

(***************************************************************************)
(* Properties of print_summary (SummarySpec).                              *)
(***************************************************************************)
Summarized == summary.pc = "done"

\* the positions of the results with one of the statuses
WithStatus(rs, statuses) == {i \in 1..Len(rs) : rs[i].status \in statuses}

\* the sum of new_commits_count over the positions of a set
RECURSIVE CommitsOver(_, _)
CommitsOver(rs, I) ==
    IF I = {} THEN 0
    ELSE LET i == CHOOSE k \in I : TRUE
         IN  rs[i].new_commits_count + CommitsOver(rs, I \ {i})

\* C21: the success count is the number of results whose status is not
\* error, so success + errors = total for every mix of statuses the sync
\* operations return, not_cloned included.
C21_SuccessIsNotError ==
    Summarized =>
        /\ summary.success =
              Len(summary.results) - Cardinality(WithStatus(summary.results, {"error"}))
        /\ summary.success + summary.errors = summary.total

\* C22: the updated count is the number of results with status updated or
\* updated_forced, and the total of new commits is the sum of
\* new_commits_count over exactly those results.
C22_UpdatedAndCommitTotals ==
    Summarized =>
        /\ summary.updated =
              Cardinality(WithStatus(summary.results, UpdatedStatuses))
        /\ summary.new_commits_total =
              CommitsOver(summary.results,
                          WithStatus(summary.results, UpdatedStatuses))

C22_Witness ==
    /\ Summarized
    /\ Len(summary.results) = 2
    /\ summary.results[1].status = "updated_forced"
    /\ summary.results[2].status = "no_changes"
    /\ summary.updated = 1
    /\ summary.new_commits_total = 2

(***************************************************************************)
(* Properties of search_in_repos (SearchSpec).                             *)
(***************************************************************************)
Searched == search.pc = "returned"

\* the history a turn of the loop worked on
LogAt(k) == search.store[RepoPath(search.repos[k])].log

\* the positions of the max_count most recent commits whose message
\* contains the query, both in lower case
RecentHits(k) ==
    {i \in 1..LogAt(k).n :
        /\ i <= 100
        /\ In(Lower(search.query), Lower(MessageOf(LogAt(k), i)))}

\* commit i of the k-th repository is reported
Reported(k, i) ==
    \E e \in 1..Len(search.results) :
        /\ search.results[e].repo = search.repos[k]
        /\ \E j \in 1..Len(search.results[e].matches) :
              search.results[e].matches[j].hash = i

\* every entry holds at most 100 matches, all among the 100 most recent
WithinBound ==
    \A e \in 1..Len(search.results) :
        /\ search.results[e].count <= 100
        /\ \A j \in 1..Len(search.results[e].matches) :
              search.results[e].matches[j].hash <= 100

Entered ==
    {k \in 1..Len(search.repos) :
        /\ search.store[RepoPath(search.repos[k])].present
        /\ search.scanned[k] = "ok"
        /\ RecentHits(k) # {}}

\* the k-th smallest element of a set of numbers
RECURSIVE Nth(_, _)
Nth(I, k) ==
    LET least == CHOOSE i \in I : \A j \in I : i <= j
    IN  IF k = 1 THEN least ELSE Nth(I \ {least}, k - 1)

\* C27: the result has an entry for a repository iff its mirror is present
\* and a scanned commit matches; every entry has count = len(matches) >= 1;
\* absent mirrors, mirrors with no match and mirrors whose scan failed are
\* left out; the entries are in input order.
C27_EntriesAreTheMatchingRepos ==
    Searched =>
        /\ Len(search.results) = Cardinality(Entered)
        /\ \A e \in 1..Len(search.results) :
              /\ search.results[e].repo = search.repos[Nth(Entered, e)]
              /\ search.results[e].count = Len(search.results[e].matches)
              /\ search.results[e].count >= 1
              /\ search.results[e].count = Cardinality(RecentHits(Nth(Entered, e)))

C27_Witness ==
    /\ Searched
    /\ Len(search.repos) = 2
    /\ search.scanned = <<"ok", "ok">>
    /\ RecentHits(1) = {}
    /\ RecentHits(2) # {}
    /\ Len(search.results) = 1
    /\ search.results[1].repo = search.repos[2]

(***************************************************************************)
(* Properties of view_commit_history (HistorySpec).                        *)
(***************************************************************************)
\* C29: on a present mirror with T commits, history yields exactly
\* min(L, T) commits, the most recent ones first, for every supplied limit
\* L >= 0, and all T commits only when no limit is supplied; on an absent
\* mirror it signals not cloned and enumerates nothing.
C29_HistoryTruncatedToLimit ==
    history.pc = "done" =>
        /\ ~history.present =>
              /\ history.printed = "not cloned"
              /\ history.commits = <<>>
        /\ (history.present /\ history.printed # "error") =>
              history.commits =
                  [i \in 1..(IF history.limit.given
                               THEN Min(history.limit.value, history.n)
                               ELSE history.n) |-> i]

(***************************************************************************)
(* Properties of filtering and updating (FilterSpec).                      *)
(***************************************************************************)
Elements(seq) == {seq[i] : i \in 1..Len(seq)}

\* the identifiers of the list that the filter left out
FilteredOut == Elements(menu.loaded) \ Elements(menu.filtered)

\* C28: after filtering by a pattern and updating the filtered subset, no
\* update is started on an identifier outside the filtered set and no
\* mirror of such an identifier is modified.
C28_UpdateOnlyFiltered ==
    menu.used =>
        \A id \in FilteredOut :
            /\ id \notin Elements(menu.started)
            /\ RepoPath(id) \notin menu.touched
====
